---- MODULE Spec2Model ----
(***************************************************************************)
(* Landmass synthesis of the two Civ7 map scripts EarthLike.js (two-pass   *)
(* fractal refinement) and smiley-face.js (single pass with a decorative   *)
(* shape overlay), followed by engine terrain validation and coast         *)
(* expansion.                                                              *)
(*                                                                         *)
(* The engine services the scripts call (FractalBuilder, TerrainBuilder,   *)
(* GameplayMap, map-utilities, map-globals) are not part of the            *)
(* repository.  What they return is an input of the model: a height        *)
(* surface out of a small family, a water height, a seeded draw stream,    *)
(* the two margin globals.                                                 *)
(***************************************************************************)
EXTENDS Integers, FiniteSets, Sequences, TLC

\* ------------------------------------------------------------------ bounds
MinWidth == 10
MaxWidth == 32
MinHeight == 4
MaxHeight == 12
MaxOceanWaterColumns == 1
MaxPolarWaterRows == 1
NumFields == 3
MaxElevation == 1
NumSeeds == 2
MaxBitmapSide == 3
NumImages == 4

\* The grids a script is run on.  The shape overlay needs twelve rows and
\* thirty-two columns before a plot of a continent falls inside an eye or
\* the mouth; the two-pass script forms both continents on the small grids,
\* and on the narrowest its West region is empty once a margin is set.
GridSizes(v) ==
    IF v = "EarthLike"
    THEN {MinWidth, MinWidth + 2} \X {MinHeight}
    ELSE {MinWidth, MaxWidth} \X {MinHeight, MaxHeight}

\* The values the two margin globals and the water heights are drawn from.
OceanWaterColumnChoices == {0, MaxOceanWaterColumns}
PolarWaterRowChoices == {0, MaxPolarWaterRows}
WaterHeights == {1, MaxElevation}

\* ------------------------------------------------------- program constants
g_OceanTerrain == "Ocean"
g_CoastTerrain == "Coast"
g_FlatTerrain == "Flat"
PLOT_TAG_NONE == {}

oceanBuffer == 8
smileyGap == 12
fractalSizePrimary == 3
fractalSizeSecondary == 4
landWaterPercent == 20
fractalSizeSmiley == 2
coastRange == 2
waterMargin == 10

VARIABLES
    variant,               \* which script handles GenerateMap
    iWidth, iHeight,       \* GameplayMap.getGridWidth() / getGridHeight()
    g_OceanWaterColumns,   \* globals.g_OceanWaterColumns
    g_PolarWaterRows,      \* globals.g_PolarWaterRows
    mapInfo,               \* GameInfo.Maps.lookup(uiMapSize): "null" or "valid"
    pc,                    \* position inside generateMap
    region,                \* the continent createContinent is working on
    terrain,               \* TerrainGrid: cell -> terrain kind
    tags,                  \* TerrainGrid: cell -> set of plot tags
    fractal,               \* the g_LandmassFractal slot and the engine's fractal seed
    rng,                   \* the shared random stream: seed and draws made
    players,               \* <<iNumPlayers1, iNumPlayers2>>
    landAfterPass1,        \* history: land cells when Pass 1 of the region ended
    pass1Added,            \* history: cells Pass 1 of the region turned to land
    terrainBefore,         \* history: the grid expandCoasts started from
    outOfGrid,             \* history: coordinates outside the grid handed to the engine
    visited,               \* history: the coordinates createContinent visited, by region
    calls,                 \* history: cell -> <<setTerrainType calls, setPlotTag calls>> of the script
    passLog,               \* history: the surface and threshold each createContinent pass read
    drawLog,               \* history: the getRandomNumber calls made, in order
    water,                 \* history: iWaterHeight and g_Cutoff as createSmileyLandmasses read them
    bmp,                   \* PngPreprocessor: the bitmap handed to ProcessPlanetImage
    imgPos,                \* PngPreprocessor: <<x, y>> of the two loops
    mapDefinition,         \* PngPreprocessor: the StringBuilder, a sequence of characters
    imgPc                  \* PngPreprocessor: "idle", "scan" or "returned"

inputs == <<variant, iWidth, iHeight, g_OceanWaterColumns, g_PolarWaterRows, mapInfo>>
history == <<landAfterPass1, pass1Added, terrainBefore, outOfGrid, visited>>
counts == <<calls, water, drawLog, passLog>>
image == <<bmp, imgPos, mapDefinition, imgPc>>
vars == <<inputs, pc, region, terrain, tags, fractal, rng, players, history, counts, image>>

\* --------------------------------------------------------------- the grid
Cells == (0 .. iWidth - 1) \X (0 .. iHeight - 1)

Abs(n) == IF n < 0 THEN -n ELSE n

IsLand(t) == t # g_OceanTerrain /\ t # g_CoastTerrain

LandCells(t) == {c \in Cells : IsLand(t[c])}

\* Grid adjacency used by the engine's area and shallow-water queries.
Adjacent(c, d) == c # d /\ Abs(c[1] - d[1]) <= 1 /\ Abs(c[2] - d[2]) <= 1

Neighbours(c) ==
    {d \in ((c[1] - 1) .. (c[1] + 1)) \X ((c[2] - 1) .. (c[2] + 1)) :
        d \in Cells /\ Adjacent(c, d)}

\* ------------------------------------------------------- engine services
\* FractalBuilder.create: the surface the engine builds is fixed by its seed
\* and by the number of surfaces built before.
FieldOf(seed, built) == (seed + built) % NumFields

\* FractalBuilder.getHeight: the sample of surface f at (x, y).
FieldHeight(f, x, y) ==
    IF f = 0 THEN 0
    ELSE IF f = 1 THEN MaxElevation
    ELSE (x + (f - 1) * y) % (MaxElevation + 1)

\* TerrainBuilder.getRandomNumber(iMax, ...) at draw number pos of stream seed.
RawDraw(seed, pos) ==
    IF seed = 0 THEN 0
    ELSE IF seed = 1 THEN 1
    ELSE pos \div (seed - 1)

getRandomNumber(iMax, seed, pos) == RawDraw(seed, pos) % iMax

\* utilities.addLandmassPlotTags(x, y, iEastContinentLeftCol); tags are additive.
\* col2 is the column in half-columns.
addLandmassPlotTags(tg, x, col2) ==
    tg \cup {"LANDMASS", IF 2 * x >= col2 THEN "EAST_LANDMASS" ELSE "WEST_LANDMASS"}

\* utilities.addWaterPlotTags(x, y, iEastContinentLeftCol)
addWaterPlotTags(tg, x, col2) ==
    tg \cup {"WATER", IF 2 * x >= col2 THEN "EAST_WATER" ELSE "WEST_WATER"}

\* GameplayMap.isAdjacentToShallowWater(x, y) on grid t.
isAdjacentToShallowWater(t, c) == \E d \in Neighbours(c) : t[d] = g_CoastTerrain

\* ----------------------------------------------- EarthLike.js: the regions
gapStart == (iWidth \div 2) - (oceanBuffer \div 2)
gapEnd == gapStart + oceanBuffer - 1

westContinent ==
    [west |-> g_OceanWaterColumns, east |-> gapStart - 1,
     south |-> g_PolarWaterRows, north |-> iHeight - g_PolarWaterRows,
     continent |-> 0]

\* Mutant: the East continent starts on the last column of the gap.
eastContinentIntoGap ==
    [west |-> gapEnd, east |-> iWidth - g_OceanWaterColumns,
     south |-> g_PolarWaterRows, north |-> iHeight - g_PolarWaterRows,
     continent |-> 1]

eastContinent ==
    [west |-> gapEnd + 1, east |-> iWidth - g_OceanWaterColumns,
     south |-> g_PolarWaterRows, north |-> iHeight - g_PolarWaterRows,
     continent |-> 1]

Continent(r) == IF r = "west" THEN westContinent ELSE eastContinent

\* Mutant: the column loop runs one column past the region's east bound.
VisitsPastEast(c, x, y) == c.south <= y /\ y <= c.north /\ c.west <= x /\ x <= c.east + 1

\* Mutant: the loops run between the two bounds whichever is the larger.
VisitsEitherOrder(c, x, y) ==
    /\ (c.south <= y /\ y <= c.north) \/ (c.north <= y /\ y <= c.south)
    /\ (c.west <= x /\ x <= c.east) \/ (c.east <= x /\ x <= c.west)

\* The plots the two loops of createContinent visit: both ends included.
Visits(c, x, y) == c.south <= y /\ y <= c.north /\ c.west <= x /\ x <= c.east

VisitedCoordinates(c) == (c.west .. c.east) \X (c.south .. c.north)

\* The coordinates a pass over region c hands to the engine, out of every
\* coordinate a bound can reach: the loop tests decide.
LoopCoordinates(c) == {d \in (0 .. iWidth) \X (0 .. iHeight) : Visits(c, d[1], d[2])}

\* ------------------------------------------- smiley-face.js: the regions
\* iWidth / 2 is not an integer for odd widths, so the bounds of these two
\* descriptors are held in half-columns and half-rows (twice their value).
continent1 ==
    [west |-> 2 * g_OceanWaterColumns, east |-> iWidth - 2 * smileyGap,
     south |-> 2 * g_PolarWaterRows, north |-> 2 * (iHeight - g_PolarWaterRows),
     continent |-> 0]

continent2 ==
    [west |-> iWidth + 2 * smileyGap, east |-> 2 * (iWidth - g_OceanWaterColumns),
     south |-> 2 * g_PolarWaterRows, north |-> 2 * (iHeight - g_PolarWaterRows),
     continent |-> 1]

eyeRadius == iHeight \div 12
mouthWidth == iHeight \div 6
mouthHeight == iHeight \div 12

currentContinent(x) == IF 2 * x < iWidth THEN continent1 ELSE continent2

\* Four times continentCenterX.
continentCenterX4(x) == currentContinent(x).west + currentContinent(x).east

\* 10000 * Math.sin(q * PI / 8) for -8 < q < 8; the argument of the sine is
\* (iX - continentCenterX) / mouthWidth * PI with mouthWidth = 2, which is
\* the mouth width of every height from 12 to 17.
SineTable == <<0, 3827, 7071, 9239, 10000, 9239, 7071, 3827>>

Sine10000(q) == IF q < 0 THEN -SineTable[1 - q] ELSE SineTable[1 + q]

inEye(x, y, eyeX4) ==
    (4 * x - eyeX4) * (4 * x - eyeX4)
        + 4 * (2 * y - (iHeight + 4 * eyeRadius)) * (2 * y - (iHeight + 4 * eyeRadius))
      < 16 * eyeRadius * eyeRadius

inMouth(x, y) ==
    /\ mouthHeight > 0
    /\ Abs(4 * x - continentCenterX4(x)) < 4 * mouthWidth
    /\ Abs(10000 * (2 * y - (iHeight - 4 * eyeRadius))
             - 2 * mouthHeight * Sine10000(4 * x - continentCenterX4(x)))
         < 10000 * mouthHeight

isInFeature(x, y) ==
    \/ inEye(x, y, continentCenterX4(x) - 8 * eyeRadius)
    \/ inEye(x, y, continentCenterX4(x) + 8 * eyeRadius)
    \/ inMouth(x, y)

inPolar(y) == 2 * y < continent1.south \/ 2 * y >= continent1.north

inOceanColumns(x) ==
    \/ 2 * x < continent1.west
    \/ 2 * x >= continent2.east
    \/ (2 * x >= continent1.east /\ 2 * x < continent2.west)

\* Mutant: the height test alone decides, the shape overlay is not applied.
SmileyTerrainIgnoringMask(x, y, f, iWaterHeight, cutoff) ==
    IF inPolar(y) THEN g_OceanTerrain
    ELSE IF inOceanColumns(x) THEN g_OceanTerrain
    ELSE IF FieldHeight(f, x, y) < iWaterHeight * cutoff
         THEN g_OceanTerrain
         ELSE g_FlatTerrain

\* Mutant: a plot whose height is the water height itself is ocean too.
SmileyTerrainAtWaterHeight(x, y, f, iWaterHeight, cutoff) ==
    IF inPolar(y) THEN g_OceanTerrain
    ELSE IF inOceanColumns(x) THEN g_OceanTerrain
    ELSE IF isInFeature(x, y) \/ FieldHeight(f, x, y) <= iWaterHeight * cutoff
         THEN g_OceanTerrain
         ELSE g_FlatTerrain

\* The terrain createSmileyLandmasses computes for plot (x, y): f is the
\* height surface, iWaterHeight the water height, cutoff globals.g_Cutoff.
SmileyTerrain(x, y, f, iWaterHeight, cutoff) ==
    IF inPolar(y) THEN g_OceanTerrain
    ELSE IF inOceanColumns(x) THEN g_OceanTerrain
    ELSE IF isInFeature(x, y) \/ FieldHeight(f, x, y) < iWaterHeight * cutoff
         THEN g_OceanTerrain
         ELSE g_FlatTerrain

SmileyTags(x, t) ==
    IF t # g_OceanTerrain /\ t # g_CoastTerrain
    THEN addLandmassPlotTags(PLOT_TAG_NONE, x, continent2.west)
    ELSE addWaterPlotTags(PLOT_TAG_NONE, x, continent2.west)

\* ------------------------------------------------------------------- Init
StaleTerrain(k) == [c \in Cells |-> IF k = 0 THEN g_OceanTerrain ELSE g_FlatTerrain]
StaleTags(k) == [c \in Cells |-> IF k = 0 THEN PLOT_TAG_NONE ELSE {"LANDMASS"}]

Init ==
    /\ variant \in {"EarthLike", "SmileyEarth"}
    /\ \E size \in GridSizes(variant) : iWidth = size[1] /\ iHeight = size[2]
    /\ g_OceanWaterColumns \in OceanWaterColumnChoices
    /\ g_PolarWaterRows \in PolarWaterRowChoices
    /\ mapInfo \in {"null", "valid"}
    /\ pc = "start"
    /\ region = "none"
    /\ \E k \in 0 .. 1 : terrain = StaleTerrain(k) /\ tags = StaleTags(k)
    /\ \E s \in 0 .. NumFields - 1 : fractal = [seed |-> s, built |-> 0, size |-> 0, field |-> 0]
    /\ \E s \in 0 .. NumSeeds - 1 : rng = [seed |-> s, pos |-> 0]
    /\ players = <<3, 2>>
    /\ landAfterPass1 = {}
    /\ pass1Added = {}
    /\ terrainBefore = terrain
    /\ outOfGrid = {}
    /\ visited = [r \in {"west", "east"} |-> {}]
    /\ calls = [c \in Cells |-> <<0, 0>>]
    /\ drawLog = <<>>
    /\ passLog = <<>>
    /\ water = [height |-> 0, cutoff |-> 0]
    /\ bmp = [Width |-> 0, Height |-> 0, image |-> 0]
    /\ imgPos = <<0, 0>>
    /\ mapDefinition = <<>>
    /\ imgPc = "idle"

\* ---------------------------------------------------------------- actions
\* The call counts after one more setTerrainType call on every cell of set
\* written and one more setPlotTag call on every cell of set reset.
Called(written, reset) ==
    [c \in Cells |-> <<calls[c][1] + (IF c \in written THEN 1 ELSE 0),
                       calls[c][2] + (IF c \in reset THEN 1 ELSE 0)>>]

\* Mutant: the lookup is tested after the map has been flooded with ocean.
GenerateMapAbortAfterFlood ==
    /\ pc = "start"
    /\ mapInfo = "null"
    /\ terrain' = [c \in Cells |-> g_OceanTerrain]
    /\ tags' = [c \in Cells |-> PLOT_TAG_NONE]
    /\ pc' = "done"
    /\ UNCHANGED <<inputs, image, region, fractal, rng, players, history, counts>>

\* generateMap of either script: if (mapInfo == null) return;
GenerateMapAbort ==
    /\ pc = "start"
    /\ mapInfo = "null"
    /\ pc' = "done"
    /\ UNCHANGED <<inputs, image, region, terrain, tags, fractal, rng, players, history, counts>>

\* EarthLike.js generateMap up to the first createContinent call: the
\* boundaries and the loop that floods the map with ocean and clears the tags.
EarthLikeBegin ==
    /\ pc = "start"
    /\ variant = "EarthLike"
    /\ mapInfo # "null"
    /\ terrain' = [c \in Cells |-> g_OceanTerrain]
    /\ tags' = [c \in Cells |-> PLOT_TAG_NONE]
    /\ region' = "west"
    /\ pc' = "pass1"
    /\ calls' = Called(Cells, Cells)
    /\ UNCHANGED <<inputs, image, fractal, rng, players, history, water, drawLog, passLog>>

\* FractalBuilder.create(globals.g_LandmassFractal, iWidth, iHeight, size, 0):
\* the slot holds one more surface built, of that size.
FractalCreate(fr, size) ==
    [fr EXCEPT !.built = fr.built + 1, !.size = size, !.field = FieldOf(fr.seed, fr.built)]

\* The slot as the primary pass reads it.
PrimarySlot(fr) == FractalCreate(fr, fractalSizePrimary)

\* Mutant: the secondary pass reads the surface the primary pass left.
SecondarySlotReused(fr) == fr

\* The slot as the secondary pass reads it.
SecondarySlot(fr) == FractalCreate(fr, fractalSizeSecondary)

\* What a pass read: the surface its samples came from, and the percentile
\* and the surface of its getHeightFromPercent call.
PassRead(r, pass, slot, percent) ==
    [region |-> r, pass |-> pass, built |-> slot.built, size |-> slot.size,
     field |-> slot.field, percent |-> percent, thresholdBuilt |-> slot.built]

Pass1Terrain(t, c, f, waterThresholdPrimary, x, y) ==
    IF Visits(c, x, y) /\ t[<<x, y>>] = g_OceanTerrain
          /\ FieldHeight(f, x, y) >= waterThresholdPrimary
    THEN g_FlatTerrain
    ELSE t[<<x, y>>]

\* createContinent, primary pass.
Pass1 ==
    /\ pc = "pass1"
    /\ \E waterThresholdPrimary \in WaterHeights :
        LET c == Continent(region)
            slot == PrimarySlot(fractal)
            f == slot.field
            t1 == [d \in Cells |-> Pass1Terrain(terrain, c, f, waterThresholdPrimary, d[1], d[2])]
            added == {d \in Cells : t1[d] # terrain[d]}
        IN  /\ fractal' = slot
            /\ passLog' = Append(passLog, PassRead(region, 1, slot, landWaterPercent))
            /\ terrain' = t1
            /\ tags' = [d \in Cells |->
                          IF d \in added
                          THEN addLandmassPlotTags(tags[d], d[1], 2 * eastContinent.west)
                          ELSE tags[d]]
            /\ pass1Added' = added
            /\ calls' = Called(added, {})
            /\ landAfterPass1' = LandCells(t1)
            /\ outOfGrid' = outOfGrid \cup (VisitedCoordinates(c) \ Cells)
            /\ visited' = [visited EXCEPT ![region] = @ \cup LoopCoordinates(c)]
    /\ pc' = "pass2"
    /\ UNCHANGED <<inputs, image, region, rng, players, terrainBefore, water, drawLog>>

\* Mutant: the secondary pass also raises ocean plots above its threshold.
Pass2TerrainRaising(t, c, f, waterThresholdSecondary, x, y) ==
    IF Visits(c, x, y) /\ t[<<x, y>>] = g_FlatTerrain
          /\ FieldHeight(f, x, y) < waterThresholdSecondary
    THEN g_OceanTerrain
    ELSE IF Visits(c, x, y) /\ FieldHeight(f, x, y) >= waterThresholdSecondary
         THEN g_FlatTerrain
         ELSE t[<<x, y>>]

Pass2Terrain(t, c, f, waterThresholdSecondary, x, y) ==
    IF Visits(c, x, y) /\ t[<<x, y>>] = g_FlatTerrain
          /\ FieldHeight(f, x, y) < waterThresholdSecondary
    THEN g_OceanTerrain
    ELSE t[<<x, y>>]

\* createContinent, secondary pass; then the next continent or validation.
Pass2 ==
    /\ pc = "pass2"
    /\ \E waterThresholdSecondary \in WaterHeights :
        LET c == Continent(region)
            slot == SecondarySlot(fractal)
            f == slot.field
            t2 == [d \in Cells |-> Pass2Terrain(terrain, c, f, waterThresholdSecondary, d[1], d[2])]
            reverted == {d \in Cells : t2[d] # terrain[d]}
        IN  /\ fractal' = slot
            /\ passLog' = Append(passLog, PassRead(region, 2, slot, landWaterPercent + 10))
            /\ terrain' = t2
            /\ tags' = [d \in Cells |->
                          IF d \in reverted
                          THEN addWaterPlotTags(tags[d], d[1], 2 * eastContinent.west)
                          ELSE tags[d]]
            /\ calls' = Called(reverted, {})
            /\ outOfGrid' = outOfGrid \cup (VisitedCoordinates(c) \ Cells)
            /\ visited' = [visited EXCEPT ![region] = @ \cup LoopCoordinates(c)]
    /\ IF region = "west"
       THEN region' = "east" /\ pc' = "pass1"
       ELSE region' = "none" /\ pc' = "validate"
    /\ UNCHANGED <<inputs, image, rng, players, landAfterPass1, pass1Added, terrainBefore, water, drawLog>>

\* smiley-face.js generateMap up to the createSmileyLandmasses call: the
\* boundaries and the coin flip for the continent with more players.
SmileyBegin ==
    /\ pc = "start"
    /\ variant = "SmileyEarth"
    /\ mapInfo # "null"
    /\ LET iRandom == getRandomNumber(2, rng.seed, rng.pos)
       IN  /\ players' = IF iRandom = 1 THEN <<players[2], players[1]>> ELSE players
           /\ rng' = [rng EXCEPT !.pos = rng.pos + 1]
           /\ drawLog' = Append(drawLog, [tag |-> "East or West", iMax |-> 2,
                                          value |-> iRandom, cell |-> <<>>])
    /\ pc' = "classify"
    /\ UNCHANGED <<inputs, image, region, terrain, tags, fractal, history, calls, water, passLog>>

createSmileyLandmasses ==
    /\ pc = "classify"
    /\ \E iWaterHeight \in WaterHeights, g_Cutoff \in 1 .. 2 :
        LET slot == FractalCreate(fractal, fractalSizeSmiley)
            f == slot.field
            t1 == [d \in Cells |-> SmileyTerrain(d[1], d[2], f, iWaterHeight, g_Cutoff)]
        IN  /\ fractal' = slot
            /\ terrain' = t1
            /\ tags' = [d \in Cells |-> SmileyTags(d[1], t1[d])]
            /\ water' = [height |-> iWaterHeight, cutoff |-> g_Cutoff]
    /\ calls' = Called(Cells, Cells)
    /\ pc' = "validate"
    /\ UNCHANGED <<inputs, image, region, rng, players, history, drawLog, passLog>>

\* TerrainBuilder.validateAndFixTerrain(): the engine either finds nothing
\* to fix or turns the ocean plots that touch land into shallow water.
FixedTerrain(t, fix) ==
    [c \in Cells |->
        IF fix /\ t[c] = g_OceanTerrain /\ \E d \in Neighbours(c) : IsLand(t[d])
        THEN g_CoastTerrain
        ELSE t[c]]

validateAndFixTerrain ==
    /\ pc = "validate"
    /\ \E fix \in BOOLEAN : terrain' = FixedTerrain(terrain, fix)
    /\ pc' = "expand"
    /\ UNCHANGED <<inputs, image, region, tags, fractal, rng, players, history, counts>>

\* Mutant: the test for ocean terrain is left out.
DrawsOnAnyTerrain(t, c) == isAdjacentToShallowWater(t, c)

\* expandCoasts, one plot on grid t: does the plot draw a number?
Draws(t, c) == t[c] = g_OceanTerrain /\ isAdjacentToShallowWater(t, c)

\* expandCoasts, one plot: does draw number p make the plot coast?
Promotes(seed, p) == getRandomNumber(coastRange, seed, p) = 0

\* expandCoasts, one plot that draws: the grid, the stream position and the
\* draws made after getRandomNumber and, on a 0, setTerrainType.
ExpandPlot(c, s, seed) ==
    [terrain |-> IF Promotes(seed, s.pos)
                 THEN [s.terrain EXCEPT ![c] = g_CoastTerrain]
                 ELSE s.terrain,
     pos |-> s.pos + 1,
     log |-> Append(s.log, [tag |-> "Coast Expansion", iMax |-> coastRange,
                            value |-> getRandomNumber(coastRange, seed, s.pos),
                            cell |-> c])]

\* Mutant: the columns of a row are scanned from the last one down.
RECURSIVE ExpandRowFromTheEast(_, _, _, _)
ExpandRowFromTheEast(x, y, s, seed) ==
    IF x >= iWidth THEN s
    ELSE LET c == <<iWidth - 1 - x, y>>
         IN  IF Draws(s.terrain, c)
             THEN ExpandRowFromTheEast(x + 1, y, ExpandPlot(c, s, seed), seed)
             ELSE ExpandRowFromTheEast(x + 1, y, s, seed)

\* expandCoasts, one row: the plots of row y from column x on, every plot
\* reading the grid as it is by then; s is the grid and the draws made.
RECURSIVE ExpandRow(_, _, _, _)
ExpandRow(x, y, s, seed) ==
    IF x >= iWidth THEN s
    ELSE LET c == <<x, y>>
         IN  IF Draws(s.terrain, c)
             THEN ExpandRow(x + 1, y, ExpandPlot(c, s, seed), seed)
             ELSE ExpandRow(x + 1, y, s, seed)

\* expandCoasts: the rows from y on, from row 0 up.  EarthLike.js imports
\* the engine routine of the same name, taken to scan like this one.
RECURSIVE ExpandScan(_, _, _)
ExpandScan(y, s, seed) ==
    IF y >= iHeight THEN s
    ELSE ExpandScan(y + 1, ExpandRow(0, y, s, seed), seed)

expandCoasts ==
    /\ pc = "expand"
    /\ \E r \in {ExpandScan(0, [terrain |-> terrain, pos |-> rng.pos, log |-> drawLog], rng.seed)} :
           /\ terrain' = r.terrain
           /\ drawLog' = r.log
           /\ rng' = [rng EXCEPT !.pos = r.pos]
           /\ calls' = Called({c \in Cells : r.terrain[c] # terrain[c]}, {})
    /\ terrainBefore' = terrain
    /\ pc' = "done"
    /\ UNCHANGED <<inputs, image, region, tags, fractal, players, landAfterPass1, pass1Added, outOfGrid, visited, water, passLog>>

Next ==
    \/ GenerateMapAbort
    \/ EarthLikeBegin
    \/ Pass1
    \/ Pass2
    \/ SmileyBegin
    \/ createSmileyLandmasses
    \/ validateAndFixTerrain
    \/ expandCoasts

Spec == Init /\ [][Next]_vars

\* ------------------------------------------------ PngPreprocessor (Form1.cs)
\* Colours as <<R, G, B>>, each component a byte.
Palette ==
    << <<0, 0, 255>>, <<10, 20, 200>>, <<255, 0, 0>>, <<0, 255, 0>>,
       <<100, 100, 110>>, <<100, 100, 111>>, <<250, 0, 255>>, <<0, 250, 255>>,
       <<50, 50, 50>>, <<255, 255, 255>>, <<220, 210, 100>>, <<90, 120, 131>> >>

\* bmp.GetPixel(x, y): bitmap number k of width w repeats the palette from
\* its entry 3k on, row after row.
GetPixel(b, x, y) == Palette[((3 * b.image + x + y * b.Width) % Len(Palette)) + 1]

\* AppendLine() appends Environment.NewLine, taken as one terminator.
NewLine == "\n"

\* Mutant: the colour classes of the comment each get a letter of their own.
MapColorToLetterByKind(color) ==
    LET R == color[1]
        G == color[2]
        B == color[3]
    IN  IF B > R + waterMargin /\ B > G + waterMargin THEN "W"
        ELSE IF G > R /\ G > B THEN "G"
        ELSE IF R > G /\ R > B
             THEN (IF R > 200 /\ G > 200 /\ B < 150 THEN "D" ELSE "L")
        ELSE IF (R + G + B) \div 3 < 70 THEN "M"
        ELSE "L"

\* MapColorToLetter: the components are widened to int before the sums.
MapColorToLetter(color) ==
    LET R == color[1]
        G == color[2]
        B == color[3]
    IN  IF B > R + waterMargin /\ B > G + waterMargin THEN "W"
        ELSE IF G > R /\ G > B THEN "L"
        ELSE IF R > G /\ R > B
             THEN (IF R > 200 /\ G > 200 /\ B < 150 THEN "L" ELSE "L")
        ELSE IF (R + G + B) \div 3 < 70 THEN "L"
        ELSE "L"

\* The bitmaps ProcessPlanetImage is run on.
ImageInit ==
    /\ variant = "PngPreprocessor"
    /\ iWidth = 0
    /\ iHeight = 0
    /\ g_OceanWaterColumns = 0
    /\ g_PolarWaterRows = 0
    /\ mapInfo = "null"
    /\ pc = "done"
    /\ region = "none"
    /\ terrain = <<>>
    /\ tags = <<>>
    /\ fractal = [seed |-> 0, built |-> 0, size |-> 0, field |-> 0]
    /\ rng = [seed |-> 0, pos |-> 0]
    /\ players = <<0, 0>>
    /\ landAfterPass1 = {}
    /\ pass1Added = {}
    /\ terrainBefore = <<>>
    /\ outOfGrid = {}
    /\ visited = [r \in {"west", "east"} |-> {}]
    /\ calls = <<>>
    /\ drawLog = <<>>
    /\ passLog = <<>>
    /\ water = [height |-> 0, cutoff |-> 0]
    /\ \E w \in 1 .. MaxBitmapSide, h \in 1 .. MaxBitmapSide, k \in 0 .. NumImages - 1 :
          bmp = [Width |-> w, Height |-> h, image |-> k]
    /\ imgPos = <<0, 0>>
    /\ mapDefinition = <<>>
    /\ imgPc = "scan"

\* The body of the inner loop: one pixel, one letter.
AppendTile ==
    /\ imgPc = "scan"
    /\ imgPos[2] < bmp.Height
    /\ imgPos[1] < bmp.Width
    /\ mapDefinition' = Append(mapDefinition, MapColorToLetter(GetPixel(bmp, imgPos[1], imgPos[2])))
    /\ imgPos' = <<imgPos[1] + 1, imgPos[2]>>
    /\ UNCHANGED <<inputs, pc, region, terrain, tags, fractal, rng, players, history, counts, bmp, imgPc>>

\* The inner loop is over: the row is closed and the next one starts.
AppendLine ==
    /\ imgPc = "scan"
    /\ imgPos[2] < bmp.Height
    /\ imgPos[1] >= bmp.Width
    /\ mapDefinition' = Append(mapDefinition, NewLine)
    /\ imgPos' = <<0, imgPos[2] + 1>>
    /\ UNCHANGED <<inputs, pc, region, terrain, tags, fractal, rng, players, history, counts, bmp, imgPc>>

\* The outer loop is over: return mapDefinition.ToString().
ReturnMapDefinition ==
    /\ imgPc = "scan"
    /\ imgPos[2] >= bmp.Height
    /\ imgPc' = "returned"
    /\ UNCHANGED <<inputs, pc, region, terrain, tags, fractal, rng, players, history, counts, bmp, imgPos, mapDefinition>>

ImageNext ==
    \/ AppendTile
    \/ AppendLine
    \/ ReturnMapDefinition

ImageSpec == ImageInit /\ [][ImageNext]_vars

\* ================================================================ claims
Valid == mapInfo # "null"

\* The classifier of the running script has just returned.
Classified == Valid /\ pc = "validate"

\* Classification is over: validation, coast expansion or the end.
AfterClassification == Valid /\ pc \in {"validate", "expand", "done"}

Generated == Valid /\ pc = "done"

\* Columns from the West region's east bound to the East region's west
\* bound, both bounds included.
InGapInclusive(x) ==
    IF variant = "EarthLike"
    THEN westContinent.east <= x /\ x <= eastContinent.west
    ELSE continent1.east <= 2 * x /\ 2 * x <= continent2.west

\* The same columns without the two bounds.
InGapExclusive(x) ==
    IF variant = "EarthLike"
    THEN westContinent.east < x /\ x < eastContinent.west
    ELSE continent1.east < 2 * x /\ 2 * x < continent2.west

\* C2 as stated: once the land is classified, every cell of a column x with
\* westRegion.east <= x <= eastRegion.west is Ocean, in both scripts.
C2_OceanGapInclusive ==
    AfterClassification =>
        \A c \in Cells : InGapInclusive(c[1]) => terrain[c] = g_OceanTerrain

\* C2 as amended: every cell of a column strictly between the two bounds is
\* Ocean when classification ends, and is never land afterwards (coast
\* expansion can only make it Coast).
C2_OceanGapExclusive ==
    AfterClassification =>
        \A c \in Cells : InGapExclusive(c[1]) =>
            /\ ~IsLand(terrain[c])
            /\ (pc = "validate" => terrain[c] = g_OceanTerrain)

\* C2 witness: a finished EarthLike map with land on the West region's east
\* bound and a Coast cell strictly inside the gap.
C2_Witness ==
    /\ Generated
    /\ variant = "EarthLike"
    /\ \E c \in Cells : c[1] = westContinent.east /\ IsLand(terrain[c])
    /\ \E c \in Cells : InGapExclusive(c[1]) /\ terrain[c] = g_CoastTerrain

\* Is (x, y) a polar row of region r inside the region's horizontal extent?
InPolarOfEarthLike(r, x, y) ==
    (y < r.south \/ y >= r.north) /\ r.west <= x /\ x <= r.east

InPolarOfSmiley(r, x, y) ==
    (2 * y < r.south \/ 2 * y >= r.north) /\ r.west <= 2 * x /\ 2 * x <= r.east

\* C3 as stated: when classification ends, every cell of a row y < south or
\* y >= north inside a region's horizontal extent is Ocean, in both scripts.
C3_PolarInvariant ==
    Classified =>
        \A c \in Cells :
            IF variant = "EarthLike"
            THEN \A r \in {westContinent, eastContinent} :
                    InPolarOfEarthLike(r, c[1], c[2]) => terrain[c] = g_OceanTerrain
            ELSE \A r \in {continent1, continent2} :
                    InPolarOfSmiley(r, c[1], c[2]) => terrain[c] = g_OceanTerrain

\* C4: Pass 2 of createContinent never adds land: the land after it is a
\* subset of the land after Pass 1, and every cell it changes is a cell
\* Pass 1 of the same region turned to land, now Ocean again.
C4_MonotonicRefinement ==
    [][pc = "pass2" =>
          /\ LandCells(terrain') \subseteq LandCells(terrain)
          /\ LandCells(terrain') \subseteq landAfterPass1
          /\ \A c \in Cells : terrain'[c] # terrain[c] =>
                c \in pass1Added /\ terrain'[c] = g_OceanTerrain]_vars

\* C4 witness: Pass 2 of the East region has run, reverted some of the land
\* its Pass 1 added and kept some of it.
C4_Witness ==
    /\ Classified
    /\ variant = "EarthLike"
    /\ \E c \in pass1Added : terrain[c] = g_OceanTerrain
    /\ \E c \in pass1Added : terrain[c] = g_FlatTerrain

\* C5 as stated: at the end of generation every cell inside the shape
\* overlay is Ocean.
C5_MaskIsOceanAtEnd ==
    (Generated /\ variant = "SmileyEarth") =>
        \A c \in Cells : isInFeature(c[1], c[2]) => terrain[c] = g_OceanTerrain

\* C5 as amended: every cell inside the shape overlay is Ocean when
\* classification ends, whatever its height, and is never land afterwards:
\* coast expansion can make it Coast.
C5_MaskIsWater ==
    (AfterClassification /\ variant = "SmileyEarth") =>
        \A c \in Cells : isInFeature(c[1], c[2]) =>
            /\ ~IsLand(terrain[c])
            /\ (pc = "validate" => terrain[c] = g_OceanTerrain)

\* C5 witness: a finished map built on the surface that is everywhere above
\* the threshold, with land, and an overlay cell inside a continent that
\* ended as Coast.
C5_Witness ==
    /\ Generated
    /\ variant = "SmileyEarth"
    /\ fractal.field = 1
    /\ \E c \in Cells :
        /\ isInFeature(c[1], c[2])
        /\ ~inPolar(c[2]) /\ ~inOceanColumns(c[1])
        /\ terrain[c] = g_CoastTerrain
        /\ \E d \in Neighbours(c) : IsLand(terrain[d])

NewCoast(c) == terrain[c] = g_CoastTerrain /\ terrainBefore[c] # g_CoastTerrain

LandKept == \A c \in Cells : IsLand(terrainBefore[c]) => terrain[c] = terrainBefore[c]

\* C6 as stated: after expandCoasts every new Coast cell was Ocean before
\* the pass and is adjacent to a land cell, and land is unchanged.
C6_NewCoastTouchesLand ==
    Generated =>
        /\ \A c \in Cells : NewCoast(c) =>
              /\ terrainBefore[c] = g_OceanTerrain
              /\ \E d \in Neighbours(c) : IsLand(terrain[d])
        /\ LandKept

\* C6 as amended: after expandCoasts every new Coast cell was Ocean before
\* the pass and is adjacent to a Coast cell, and land is unchanged.
C6_NewCoastTouchesCoast ==
    Generated =>
        /\ \A c \in Cells : NewCoast(c) =>
              /\ terrainBefore[c] = g_OceanTerrain
              /\ \E d \in Neighbours(c) : terrain[d] = g_CoastTerrain
        /\ LandKept

\* C6 witness: expandCoasts of smiley-face.js has made a cell Coast that
\* touches no land, next to land it left alone.
C6_Witness ==
    /\ Generated
    /\ variant = "SmileyEarth"
    /\ \E c \in Cells : NewCoast(c) /\ \A d \in Neighbours(c) : ~IsLand(terrain[d])
    /\ \E c \in Cells : IsLand(terrainBefore[c])

\* C7: with no map-size configuration generateMap returns at once: no
\* terrain kind, tag, height field or random draw is touched.
C7_FailFast ==
    [][(pc = "start" /\ mapInfo = "null") =>
          /\ pc' = "done"
          /\ terrain' = terrain
          /\ tags' = tags
          /\ fractal' = fractal
          /\ rng' = rng]_vars

\* C7 witness: generateMap has returned for a missing configuration and the
\* grid still holds what it held before the call.
C7_Witness ==
    /\ pc = "done"
    /\ mapInfo = "null"
    /\ fractal.built = 0
    /\ rng.pos = 0
    /\ \E c \in Cells : terrain[c] = g_FlatTerrain /\ tags[c] = {"LANDMASS"}

\* C8 as stated: after classification no Ocean or Coast cell carries a
\* landmass tag and no land cell carries a water tag.
C8_TagsMatchTerrain ==
    AfterClassification =>
        \A c \in Cells :
            /\ "LANDMASS" \in tags[c] => IsLand(terrain[c])
            /\ "WATER" \in tags[c] => ~IsLand(terrain[c])

MinimumGap == IF variant = "EarthLike" THEN oceanBuffer ELSE smileyGap

\* The columns each script keeps free of land between the two continents.
BandColumns ==
    IF variant = "EarthLike"
    THEN gapStart .. gapEnd
    ELSE {x \in (0 - 2 * smileyGap) .. (iWidth + 2 * smileyGap) :
             2 * x >= iWidth - 2 * smileyGap /\ 2 * x < iWidth + 2 * smileyGap}

LandColumns == {c[1] : c \in LandCells(terrain)}

\* C9: at the end of generation there is a run of consecutive columns, at
\* least as wide as the script's minimum (8 or 12), without a land cell, and
\* any West land cell is at least that many columns away from any East one.
C9_OceanSeparationBand ==
    Generated =>
        /\ Cardinality(BandColumns) >= MinimumGap
        /\ \A c \in Cells : c[1] \in BandColumns => ~IsLand(terrain[c])
        /\ \A a \in LandColumns, b \in LandColumns :
              (2 * a < iWidth /\ 2 * b >= iWidth) => b - a - 1 >= MinimumGap

\* C9 witness: a finished map with land on both sides of the band and Coast
\* inside it.
C9_Witness ==
    /\ Generated
    /\ \E a \in LandColumns, b \in LandColumns : 2 * a < iWidth /\ 2 * b >= iWidth
    /\ \E c \in Cells : c[1] \in BandColumns /\ terrain[c] = g_CoastTerrain

\* Are the bounds of descriptor r, held in units of 1/scale, integers in
\* order and inside the grid?
WellFormed(r, scale) ==
    /\ r.west % scale = 0 /\ r.east % scale = 0
    /\ r.south % scale = 0 /\ r.north % scale = 0
    /\ r.west <= r.east /\ r.south <= r.north
    /\ 0 <= r.west /\ r.east <= scale * (iWidth - 1)
    /\ 0 <= r.south /\ r.north <= scale * (iHeight - 1)

\* C10 as stated: both descriptors have integer bounds with west <= east and
\* south <= north inside the grid, and the classifier visits no coordinate
\* outside the grid.
C10_RegionDescriptorInvariant ==
    AfterClassification =>
        /\ IF variant = "EarthLike"
           THEN WellFormed(westContinent, 1) /\ WellFormed(eastContinent, 1)
           ELSE WellFormed(continent1, 2) /\ WellFormed(continent2, 2)
        /\ outOfGrid = {}

\* Are the computed bounds of descriptor r out of order?
Degenerate(r) == r.west > r.east \/ r.south > r.north

\* C11: a region whose bounds have west > east or south > north is a
\* zero-area region.  In EarthLike.js both passes visit no coordinate for it
\* (so none outside the grid) and turn no cell of it into land; in
\* smiley-face.js every cell on that region's half of the map is Ocean when
\* classification ends and stays Ocean.
C11_DegenerateIsZeroArea ==
    AfterClassification =>
        IF variant = "EarthLike"
        THEN \A r \in {"west", "east"} :
                Degenerate(Continent(r)) =>
                    /\ visited[r] = {}
                    /\ \A c \in Cells :
                          (IF r = "west" THEN c[1] < gapStart ELSE c[1] > gapEnd)
                              => ~IsLand(terrain[c])
        ELSE \A c \in Cells :
                Degenerate(currentContinent(c[1])) => terrain[c] = g_OceanTerrain

\* C11 witness: EarthLike.js has classified a map whose West region is
\* degenerate and whose East region is not and holds land.
C11_Witness ==
    /\ Classified
    /\ variant = "EarthLike"
    /\ Degenerate(westContinent)
    /\ ~Degenerate(eastContinent)
    /\ visited["east"] # {}
    /\ \E c \in Cells : c[1] > gapEnd /\ IsLand(terrain[c])

\* Blue exceeds both red + 10 and green + 10.
BlueDominant(color) == color[3] > color[1] + 10 /\ color[3] > color[2] + 10

\* The row of w letters and its terminator that starts at offset y * (w + 1).
RowOf(y) == SubSeq(mapDefinition, y * (bmp.Width + 1) + 1, (y + 1) * (bmp.Width + 1))

InsideARegion(x, y) ==
    \E r \in {continent1, continent2} :
        /\ r.west <= 2 * x /\ 2 * x < r.east
        /\ r.south <= 2 * y /\ 2 * y < r.north

\* C13: createSmileyLandmasses resets the tags of every cell once and writes
\* its terrain once; a cell inside a region is written as Flat exactly when
\* its height is at least water height x cutoff and it is outside the shape
\* mask, and every other cell is written as Ocean.
C13_SinglePassRule ==
    (Classified /\ variant = "SmileyEarth") =>
        \A c \in Cells :
            /\ calls[c] = <<1, 1>>
            /\ terrain[c] =
                 IF /\ InsideARegion(c[1], c[2])
                    /\ FieldHeight(fractal.field, c[1], c[2]) >= water.height * water.cutoff
                    /\ ~isInFeature(c[1], c[2])
                 THEN g_FlatTerrain
                 ELSE g_OceanTerrain

\* C13 witness: a classified map with a Flat cell, a cell of a region that
\* is Ocean for its height alone and a cell of a region inside the mask.
C13_Witness ==
    /\ Classified
    /\ variant = "SmileyEarth"
    /\ \E c \in Cells : terrain[c] = g_FlatTerrain
    /\ \E c \in Cells :
          /\ InsideARegion(c[1], c[2]) /\ ~isInFeature(c[1], c[2])
          /\ FieldHeight(fractal.field, c[1], c[2]) < water.height * water.cutoff
    /\ \E c \in Cells : InsideARegion(c[1], c[2]) /\ isInFeature(c[1], c[2])

\* C14: in expandCoasts of smiley-face.js the eligibility of every Ocean cell
\* is decided from the grid as it was before the pass started: every cell the
\* pass promoted had a Coast neighbour in that grid, so a cell promoted
\* earlier in the scan never makes a later cell eligible.
C14_OneShotExpansion ==
    (Generated /\ variant = "SmileyEarth") =>
        \A c \in Cells : NewCoast(c) => isAdjacentToShallowWater(terrainBefore, c)

IsExpansionDraw(e) == e.tag = "Coast Expansion"

\* The draws expandCoasts made, in the order it made them.
ExpansionDraws == SelectSeq(drawLog, IsExpansionDraw)

\* C15: during expandCoasts of smiley-face.js every Ocean cell next to a
\* shallow-water cell gets exactly one draw, from the range [0, 3) (values
\* 0, 1, 2), and is promoted to Coast exactly when the draw is one fixed
\* value; no other cell gets a draw.
C15_CoastExpansionDraw ==
    (Generated /\ variant = "SmileyEarth") =>
        /\ \A i \in 1 .. Len(ExpansionDraws) :
              LET e == ExpansionDraws[i]
              IN  /\ e.iMax = 3
                  /\ e.value \in 0 .. 2
                  /\ terrainBefore[e.cell] = g_OceanTerrain
                  /\ isAdjacentToShallowWater(terrain, e.cell)
                  /\ (terrain[e.cell] = g_CoastTerrain) <=> (e.value = 0)
        /\ Cardinality({ExpansionDraws[i].cell : i \in 1 .. Len(ExpansionDraws)})
              = Len(ExpansionDraws)
        /\ \A c \in Cells :
              (terrainBefore[c] = g_OceanTerrain /\ isAdjacentToShallowWater(terrainBefore, c))
                  => \E i \in 1 .. Len(ExpansionDraws) : ExpansionDraws[i].cell = c

\* The place of cell c in a scan by rows from row 0, each row from column 0.
RowMajor(c) == c[2] * iWidth + c[1]

\* C16: smiley-face.js consumes the stream in one order: one range-2 draw
\* for the coin flip before any cell is written, no draw while the cells are
\* classified and the terrain is validated, then the coast-expansion draws,
\* one for each Ocean cell found next to shallow water, in row-major order.
C16_DrawOrder ==
    (Valid /\ variant = "SmileyEarth") =>
        /\ pc = "start" => drawLog = <<>>
        /\ pc # "start" =>
              /\ Len(drawLog) >= 1
              /\ drawLog[1].tag = "East or West"
              /\ drawLog[1].iMax = 2
        /\ pc = "classify" => \A c \in Cells : calls[c] = <<0, 0>>
        /\ pc \in {"classify", "validate", "expand"} => Len(drawLog) = 1
        /\ pc = "done" =>
              /\ \A i \in 2 .. Len(drawLog) :
                    /\ IsExpansionDraw(drawLog[i])
                    /\ terrainBefore[drawLog[i].cell] = g_OceanTerrain
                    /\ i > 2 => RowMajor(drawLog[i - 1].cell) < RowMajor(drawLog[i].cell)
              /\ \A c \in Cells :
                    (terrainBefore[c] = g_OceanTerrain /\ isAdjacentToShallowWater(terrainBefore, c))
                        => \E i \in 2 .. Len(drawLog) : drawLog[i].cell = c

\* C16 witness: a finished run whose expansion drew for two cells of one row
\* and for cells of two rows.
C16_Witness ==
    /\ Generated
    /\ variant = "SmileyEarth"
    /\ \E i, j \in 2 .. Len(drawLog) :
          /\ drawLog[i].cell[2] = drawLog[j].cell[2]
          /\ drawLog[i].cell[1] < drawLog[j].cell[1]
    /\ \E i, j \in 2 .. Len(drawLog) : drawLog[i].cell[2] < drawLog[j].cell[2]

\* C17: in EarthLike.js the two passes of the West region come before the
\* two of the East region; the samples of a region's Pass 1 come from the
\* coarseness-3 surface built at the start of that pass and are compared
\* with the percentile-20 threshold of that surface; those of its Pass 2
\* come from the coarseness-4 surface built after its Pass 1 and are
\* compared with the percentile-30 threshold of that surface; no pass reads
\* a surface built for another pass.
C17_FieldPairing ==
    (Valid /\ variant = "EarthLike") =>
        /\ Len(passLog) <= 4
        /\ (pc = "pass1" /\ region = "west") => Len(passLog) = 0
        /\ (pc = "pass2" /\ region = "west") => Len(passLog) = 1
        /\ (pc = "pass1" /\ region = "east") => Len(passLog) = 2
        /\ (pc = "pass2" /\ region = "east") => Len(passLog) = 3
        /\ AfterClassification => Len(passLog) = 4
        /\ \A i \in 1 .. Len(passLog) :
              LET e == passLog[i]
              IN  /\ e.region = IF i <= 2 THEN "west" ELSE "east"
                  /\ e.pass = IF i % 2 = 1 THEN 1 ELSE 2
                  /\ e.size = IF e.pass = 1 THEN 3 ELSE 4
                  /\ e.percent = IF e.pass = 1 THEN 20 ELSE 30
                  /\ e.built = i
                  /\ e.field = FieldOf(fractal.seed, i - 1)
                  /\ e.thresholdBuilt = e.built

\* C17 witness: both regions have been through both passes and the East
\* region holds land.
C17_Witness ==
    /\ Classified
    /\ variant = "EarthLike"
    /\ Len(passLog) = 4
    /\ \E c \in Cells : c[1] > gapEnd /\ IsLand(terrain[c]) /\ c \in visited["east"]
    /\ \E c \in Cells : c[1] < gapStart /\ ~IsLand(terrain[c]) /\ c \in visited["west"]

====
